---- MODULE Spec2Model ----
(***************************************************************************)
(* Delayed broadcast scheduler of whatsapp-js.                             *)
(*                                                                         *)
(* Two revisions of the scheduler module are in the repository:            *)
(*   rev = "A"  src/scheduler.js        (text only, fixed 60 s pacing)     *)
(*   rev = "B"  src/unnamed/part_000    (image capable, random pacing)     *)
(* A behaviour runs one of them; Init chooses which.                       *)
(*                                                                         *)
(* Node runs the module single threaded: every action below is one         *)
(* synchronous run-to-completion segment of the code, from one await (or   *)
(* API entry) to the next await (or return).                               *)
(***************************************************************************)
EXTENDS Integers, Sequences, FiniteSets, TLC

\* ------------------------------------------------------------------ bounds
MaxJobs == 2          \* scheduleBroadcast calls in one run
MaxLen == 3           \* longest destination list
MaxTotalDest == 2     \* destinations over all jobs of a run with several jobs
MaxTime == 1          \* clock values 0..MaxTime (abstract Date.now())

\* ------------------------------------------------------- program constants
PacingMsA == 60000
RandomMinMs == 10000
RandomMaxMs == 30000
BackoffMs == 120000

Groups == {"g1", "g2"}
Messages == {"", "hello"}
ImageUrls == {"img.png"}
ApiKeys == {"key1"}
Phones == {"911"}

\* ------------------------------------------------------------- pure helpers
Max(a, b) == IF a > b THEN a ELSE b

\* String(n) of the id counter: decimal text of a small positive integer.
Digits == <<"0", "1", "2", "3", "4", "5", "6", "7", "8", "9">>
String(n) == Digits[n + 1]
Number(s) == CHOOSE n \in 0..9 : Digits[n + 1] = s

\* Array.prototype.indexOf, 0-based; -1 when absent.
IndexOf(arr, x) ==
  IF \E k \in 1..Len(arr) : arr[k] = x
    THEN (CHOOSE k \in 1..Len(arr) : arr[k] = x /\ \A j \in 1..(k - 1) : arr[j] # x) - 1
    ELSE -1

\* String.prototype.trim on the message texts of the model.
Trim(s) == IF s = " " THEN "" ELSE s

\* JavaScript truthiness of an optional string / boolean field of params.
Has(params, f) == f \in DOMAIN params
TruthyStr(params, f) == Has(params, f) /\ params[f] # ""
TruthyBool(params, f) == Has(params, f) /\ params[f]

\* err.message.includes('429')
Includes429(msg) == msg = "Request failed with status code 429"

\* Mutant of Delay: the difference is not clamped at zero.
DelayUnclamped(runAtMs, t) == runAtMs - t

\* delay = Math.max(0, runAtMs - now)
Delay(runAtMs, t) == Max(0, runAtMs - t)


\* ---------------------------------------------------------- delivery client
\* What the provider's HTTP endpoint answers to one request.
StatusResponses == {"connected", "disconnected", "http_error"}
ProviderResponses == {"accepted", "http429", "http500"}

\* WasenderService.isConfigured for an instance built with (apiKey, null).
IsConfigured(apiKey) == apiKey # ""

\* Mutant of CheckDeviceStatus: any answered request counts as connected.
CheckDeviceStatusAnyAnswer(apiKey, resp) ==
  IF ~IsConfigured(apiKey) THEN [success |-> FALSE, connected |-> FALSE]
  ELSE IF resp = "http_error" THEN [success |-> FALSE, connected |-> FALSE]
  ELSE [success |-> TRUE, connected |-> TRUE]

\* WasenderService.checkDeviceStatus: always returns an object, never throws.
CheckDeviceStatus(apiKey, resp) ==
  IF ~IsConfigured(apiKey) THEN [success |-> FALSE, connected |-> FALSE]
  ELSE IF resp = "http_error" THEN [success |-> FALSE, connected |-> FALSE]
  ELSE [success |-> TRUE, connected |-> (resp = "connected")]

\* The message of the axios error for a non-2xx answer.
AxiosErrorMessage(resp) ==
  IF resp = "http429" THEN "Request failed with status code 429"
  ELSE "Request failed with status code 500"

\* What the provider call of sendMessageToGroup can settle with: the answers
\* above, a 2xx body saying success: false, a 2xx answer without a body, and
\* no answer within the 30 s timeout of the axios instance.
SendResponses == ProviderResponses \cup {"success_false", "empty_body", "timeout"}

\* The message of the error raised inside the inner try block.
SendErrorMessage(resp) ==
  IF resp = "success_false" THEN "Failed to send message"
  ELSE IF resp = "empty_body"
    THEN "Cannot read properties of undefined (reading 'message')"
  ELSE IF resp = "timeout" THEN "timeout of 30000ms exceeded"
  ELSE AxiosErrorMessage(resp)

\* new WasenderService(apiKey, deviceId): the arguments when an API key is
\* given, the environment otherwise.  "" stands for null / undefined.
NewWasenderService(apiKey, deviceId, env) ==
  IF apiKey # "" THEN [apiKey |-> apiKey, deviceId |-> deviceId]
  ELSE [apiKey |-> env.apiKey, deviceId |-> env.deviceId]

\* WasenderService.isConfigured of an instance.
InstanceIsConfigured(inst) ==
  IF inst.apiKey # "" /\ inst.deviceId = "" THEN TRUE
  ELSE inst.apiKey # "" /\ inst.deviceId # ""

\* sendMessageToGroup, inner try block: the post and the test of its body.
SendInnerTry(resp) ==
  IF resp = "accepted" THEN [thrown |-> FALSE, success |-> TRUE, error |-> ""]
  ELSE [thrown |-> TRUE, success |-> FALSE, error |-> SendErrorMessage(resp)]

\* sendMessageToGroup, inner catch block: simulate success when the instance
\* is not configured, re-throw otherwise.
SendInnerCatch(inst, r) ==
  IF ~r.thrown THEN r
  ELSE IF ~InstanceIsConfigured(inst)
    THEN [thrown |-> FALSE, success |-> TRUE, error |-> ""]
  ELSE r

\* Mutant of SendOuterCatch: the error leaves the method.
SendOuterCatchRethrows(r) == r

\* sendMessageToGroup, outer catch block: every error becomes a value.
SendOuterCatch(r) ==
  IF r.thrown THEN [thrown |-> FALSE, success |-> FALSE, error |-> r.error]
  ELSE r

\* WasenderService.sendMessageToGroup of an instance.
SendMessageToGroupOf(inst, resp) ==
  SendOuterCatch(SendInnerCatch(inst, SendInnerTry(resp)))

\* WasenderService.sendMessageToGroup of the instance the scheduler builds,
\* new wasenderService(apiKey).
SendMessageToGroup(apiKey, resp) ==
  SendMessageToGroupOf([apiKey |-> apiKey, deviceId |-> ""], resp)

\* sendImageToGroup / sendMixedMessageToGroup are called by revision B and are
\* not part of src/wasender_service.js: the call yields a result of the
\* documented shape, or raises.
ImageSendOutcomes ==
  {[thrown |-> FALSE, success |-> TRUE, error |-> ""]}
  \cup {[thrown |-> t, success |-> FALSE, error |-> AxiosErrorMessage(resp)] :
          t \in BOOLEAN, resp \in ProviderResponses \ {"accepted"}}

ResultTag(out) ==
  IF out.thrown THEN (IF Includes429(out.error) THEN "throw429" ELSE "throw")
  ELSE IF out.success THEN "ok"
  ELSE IF Includes429(out.error) THEN "fail429" ELSE "fail"

\* ------------------------------------------------------------------- inputs
GroupLists == UNION {[1..n -> Groups] : n \in 1..MaxLen}

TextParams ==
  [groupIds : GroupLists, message : Messages, runAtMs : 0..MaxTime,
   apiKey : ApiKeys, phoneNumber : Phones]
ImageParams ==
  [groupIds : GroupLists, message : Messages, runAtMs : 0..MaxTime,
   apiKey : ApiKeys, phoneNumber : Phones, imageUrl : ImageUrls, hasImage : {TRUE}]
ParamsSet == TextParams \cup ImageParams

\* -------------------------------------------------------------------- state
VARIABLES
  rev,            \* which revision of the scheduler module is loaded
  now,            \* Date.now()
  nextId,         \* let nextId = 1
  scheduledJobs,  \* const scheduledJobs = new Map()
  closure,        \* params captured by each timer callback
  timer,          \* the setTimeout handle of each job: state and due time
  pc,             \* where each job's async callback is suspended
  idx,            \* loop position (1-based) of each callback
  wait,           \* the pacing / backoff timer a callback is suspended on
  trace,          \* history: what each callback has done so far
  cancelled,      \* history: per id, whether cancelJob returned true for it,
                  \* before its timer fired ("early") or after ("late")
  call            \* the client or session-service call in progress, if any

schedVars == <<rev, now, nextId, scheduledJobs, closure, timer, pc, idx, wait,
               trace, cancelled>>
vars == <<rev, now, nextId, scheduledJobs, closure, timer, pc, idx, wait,
          trace, cancelled, call>>

Ids == {String(n) : n \in 1..MaxJobs}
AnyIds == {String(n) : n \in 1..(MaxJobs + 1)}

NoWait == [kind |-> "", ms |-> 0]
NoTimer == [state |-> "none", due |-> 0]
Event(t, i, a, b) == [type |-> t, idx |-> i, a |-> a, b |-> b]

\* No call of the client layer is in progress.
NoCall == [fn |-> "none"]

\* Map.set / Map.delete / Map.has
MapSet(m, k, v) == [x \in DOMAIN m \cup {k} |-> IF x = k THEN v ELSE m[x]]
MapDelete(m, k) == [x \in DOMAIN m \ {k} |-> m[x]]
MapHas(m, k) == k \in DOMAIN m

Init ==
  /\ rev \in {"A", "B"}
  /\ now = 0
  /\ nextId = 1
  /\ scheduledJobs = <<>>
  /\ closure = <<>>
  /\ timer = [id \in Ids |-> NoTimer]
  /\ pc = [id \in Ids |-> "idle"]
  /\ idx = [id \in Ids |-> 0]
  /\ wait = [id \in Ids |-> NoWait]
  /\ trace = [id \in Ids |-> <<>>]
  /\ cancelled = [id \in Ids |-> "no"]
  /\ call = NoCall

\* Lifecycle phase of an id, read off the timer and the callback position.
Phase(id) ==
  IF id \notin Ids THEN "unissued"
  ELSE IF timer[id].state = "none" THEN "unissued"
  ELSE IF timer[id].state = "armed" THEN "scheduled"
  ELSE IF timer[id].state = "cleared" THEN "cancelled"
  ELSE IF pc[id] = "done" THEN "completed"
  ELSE "dispatching"

TotalDest ==
  LET RECURSIVE Sum(_)
      Sum(S) == IF S = {} THEN 0
                ELSE LET x == CHOOSE y \in S : TRUE
                     IN Len(closure[x].groupIds) + Sum(S \ {x})
  IN Sum(DOMAIN closure)


\* ------------------------------------------------------------ job registry
\* The object scheduleBroadcast stores with scheduledJobs.set(id, {...}).
\* Revision A never reads imageUrl / hasImage from params.
JobRecord(r, id, params) ==
  IF r = "A"
    THEN [id |-> id, runAtMs |-> params.runAtMs, groupIds |-> params.groupIds,
          message |-> params.message, timeout |-> id, apiKey |-> params.apiKey,
          phoneNumber |-> params.phoneNumber]
    ELSE [id |-> id, runAtMs |-> params.runAtMs, groupIds |-> params.groupIds,
          message |-> params.message, timeout |-> id, apiKey |-> params.apiKey,
          phoneNumber |-> params.phoneNumber,
          imageUrl |-> IF TruthyStr(params, "imageUrl") THEN params.imageUrl ELSE "null",
          hasImage |-> TruthyBool(params, "hasImage")]

\* The variables of scheduleBroadcast the timer callback reads: the callback
\* is a closure over them, not over the registry record.
Destructure(r, params) ==
  IF r = "A" \/ ~Has(params, "hasImage")
    THEN [groupIds |-> params.groupIds, message |-> params.message,
          apiKey |-> params.apiKey]
    ELSE [groupIds |-> params.groupIds, message |-> params.message,
          apiKey |-> params.apiKey, imageUrl |-> params.imageUrl,
          hasImage |-> params.hasImage]

\* The client method the callback invokes for every destination of a job.
SendVariant(r, params) ==
  IF r = "A" THEN "sendMessageToGroup"
  ELSE IF TruthyBool(params, "hasImage") /\ TruthyStr(params, "imageUrl")
          /\ params.message # "" /\ Trim(params.message) # ""
    THEN "sendMixedMessageToGroup"
  ELSE IF TruthyBool(params, "hasImage") /\ TruthyStr(params, "imageUrl")
    THEN "sendImageToGroup"
  ELSE "sendMessageToGroup"

\* The results the awaited send can settle with.
SendOutcomes(r, params) ==
  IF SendVariant(r, params) = "sendMessageToGroup"
    THEN {SendMessageToGroup(params.apiKey, resp) : resp \in ProviderResponses}
    ELSE ImageSendOutcomes

\* Mutant of ClearTimeout: the handle is left armed.
ClearTimeoutNoop(t) == t

\* clearTimeout(handle): disarms an armed timer, no effect on any other.
ClearTimeout(t) == IF t.state = "armed" THEN [state |-> "cleared", due |-> 0] ELSE t

\* Mutant of ScheduleBroadcast: the id counter is not advanced.
ScheduleBroadcastReusesId(params) ==
  /\ nextId <= MaxJobs
  /\ nextId > 1 => TotalDest + Len(params.groupIds) <= MaxTotalDest
  /\ LET id == String(nextId)
         delay == Delay(params.runAtMs, now)
     IN /\ nextId' = nextId
        /\ timer' = [timer EXCEPT ![id] = [state |-> "armed", due |-> now + delay]]
        /\ closure' = MapSet(closure, id, Destructure(rev, params))
        /\ scheduledJobs' = MapSet(scheduledJobs, id, JobRecord(rev, id, params))
  /\ UNCHANGED <<call, rev, now, pc, idx, wait, trace, cancelled>>

\* scheduleBroadcast(params)
ScheduleBroadcast(params) ==
  /\ nextId <= MaxJobs
  /\ nextId > 1 => TotalDest + Len(params.groupIds) <= MaxTotalDest
  /\ LET id == String(nextId)
         delay == Delay(params.runAtMs, now)
     IN /\ nextId' = nextId + 1
        /\ timer' = [timer EXCEPT ![id] = [state |-> "armed", due |-> now + delay]]
        /\ closure' = MapSet(closure, id, Destructure(rev, params))
        /\ scheduledJobs' = MapSet(scheduledJobs, id, JobRecord(rev, id, params))
  /\ UNCHANGED <<call, rev, now, pc, idx, wait, trace, cancelled>>

\* Mutant of CancelResult: true for every id ever issued, live or not.
CancelResultKnownId(id) == MapHas(closure, id)

\* The value cancelJob(id) returns in the current state.
CancelResult(id) == MapHas(scheduledJobs, id)

\* Mutant of CancelJob: cancelling a job whose callback is running stops it.
CancelJobAborts(id) ==
  /\ IF CancelResult(id)
       THEN /\ timer' = [timer EXCEPT ![scheduledJobs[id].timeout] = ClearTimeout(@)]
            /\ scheduledJobs' = MapDelete(scheduledJobs, id)
            /\ cancelled' = [cancelled EXCEPT ![id] =
                               IF Phase(id) = "scheduled" THEN "early" ELSE "late"]
            /\ pc' = [pc EXCEPT ![id] = IF Phase(id) = "dispatching" THEN "done" ELSE @]
       ELSE UNCHANGED <<timer, scheduledJobs, cancelled, pc>>
  /\ UNCHANGED <<call, rev, now, nextId, closure, idx, wait, trace>>

\* Mutant of CancelJob: the timer is cleared but the entry is not deleted.
CancelJobKeepsEntry(id) ==
  /\ IF CancelResult(id)
       THEN /\ timer' = [timer EXCEPT ![scheduledJobs[id].timeout] = ClearTimeout(@)]
            /\ cancelled' = [cancelled EXCEPT ![id] =
                               IF Phase(id) = "scheduled" THEN "early" ELSE "late"]
            /\ UNCHANGED scheduledJobs
       ELSE UNCHANGED <<timer, scheduledJobs, cancelled>>
  /\ UNCHANGED <<call, rev, now, nextId, closure, pc, idx, wait, trace>>

\* cancelJob(id)
CancelJob(id) ==
  /\ IF CancelResult(id)
       THEN /\ timer' = [timer EXCEPT ![scheduledJobs[id].timeout] = ClearTimeout(@)]
            /\ scheduledJobs' = MapDelete(scheduledJobs, id)
            /\ cancelled' = [cancelled EXCEPT ![id] =
                               IF Phase(id) = "scheduled" THEN "early" ELSE "late"]
       ELSE UNCHANGED <<timer, scheduledJobs, cancelled>>
  /\ UNCHANGED <<call, rev, now, nextId, closure, pc, idx, wait, trace>>

\* getJob(id); revision A spreads the whole record into the view.
ToISOString(ms) == <<"iso", ms>>
Null == [null |-> TRUE]
GetJob(id) ==
  IF ~MapHas(scheduledJobs, id) THEN Null
  ELSE LET job == scheduledJobs[id] IN
    IF rev = "A"
      THEN [id |-> job.id, runAtMs |-> job.runAtMs, groupIds |-> job.groupIds,
            message |-> job.message, timeout |-> job.timeout, apiKey |-> job.apiKey,
            phoneNumber |-> job.phoneNumber, runAt |-> ToISOString(job.runAtMs),
            status |-> "scheduled"]
      ELSE [id |-> job.id, runAtMs |-> job.runAtMs, groupIds |-> job.groupIds,
            message |-> job.message, runAt |-> ToISOString(job.runAtMs),
            status |-> "scheduled", hasImage |-> job.hasImage,
            imageUrl |-> job.imageUrl]

\* The entries of a registry in the order Array.from(map.values()) yields
\* them: insertion order, which is the order of the ids' numbers because every
\* key is set once and ids are issued in increasing order.
Values(m) ==
  LET RECURSIVE Asc(_)
      Asc(S) == IF S = {} THEN <<>>
                ELSE LET k == CHOOSE x \in S : \A y \in S : Number(x) <= Number(y)
                     IN <<m[k]>> \o Asc(S \ {k})
  IN Asc(DOMAIN m)

\* The rest pattern { timeout, apiKey, phoneNumber, ...rest } followed by the
\* spread { ...rest, runAt, status }.
Stripped == {"timeout", "apiKey", "phoneNumber"}
ListView(job, strip) ==
  [f \in (DOMAIN job \ strip) \cup {"runAt", "status"} |->
     IF f = "runAt" THEN ToISOString(job.runAtMs)
     ELSE IF f = "status" THEN "scheduled"
     ELSE job[f]]

\* Mutant of ListJobsOf: only the timer handle is stripped from the entries.
ListJobsOfLeaky(m) ==
  [k \in 1..Len(Values(m)) |-> ListView(Values(m)[k], {"timeout"})]

\* Mutant of ListJobsOf: the most recently inserted entry is left out.
ListJobsOfDropsLast(m) ==
  [k \in 1..(Len(Values(m)) - 1) |-> ListView(Values(m)[k], Stripped)]

\* listJobs() over a registry m.
ListJobsOf(m) ==
  [k \in 1..Len(Values(m)) |-> ListView(Values(m)[k], Stripped)]

ListJobs == ListJobsOf(scheduledJobs)

\* The clock advances.
Tick ==
  /\ now < MaxTime
  /\ now' = now + 1
  /\ UNCHANGED <<call, rev, nextId, scheduledJobs, closure, timer, pc, idx, wait,
                 trace, cancelled>>


\* -------------------------------------------------------------- dispatcher
\* Math.floor(Math.random() * (30000 - 10000 + 1)) + 10000, by the floor drawn.
RandomFloors == {0, RandomMaxMs - RandomMinMs}
RandomDelay(f) == f + RandomMinMs

\* The pacing guard after a send that returned, at 1-based loop position i.
\* Revision A looks the destination up by value, revision B uses the index.
PaceAfter(r, groupIds, i) ==
  IF r = "A" THEN IndexOf(groupIds, groupIds[i]) < Len(groupIds) - 1
  ELSE (i - 1) < Len(groupIds) - 1

\* The pacing interval of a revision (f is the random draw, unused by A).
PaceMs(r, f) == IF r = "A" THEN PacingMsA ELSE RandomDelay(f)

\* Mutant of WaitAfterSend: the pacing interval is added to the backoff.
WaitAfterSendCumulative(r, groupIds, i, out, f) ==
  IF out.thrown
    THEN IF Includes429(out.error)
           THEN [kind |-> "backoff", ms |-> BackoffMs + PaceMs(r, f)]
         ELSE NoWait
    ELSE IF PaceAfter(r, groupIds, i) THEN [kind |-> "pace", ms |-> PaceMs(r, f)]
         ELSE NoWait

\* What the loop body does once the awaited send has settled with out:
\* the wait it starts, or NoWait when it falls through to the next iteration.
WaitAfterSend(r, groupIds, i, out, f) ==
  IF out.thrown
    THEN IF Includes429(out.error) THEN [kind |-> "backoff", ms |-> BackoffMs]
         ELSE NoWait
    ELSE IF PaceAfter(r, groupIds, i) THEN [kind |-> "pace", ms |-> PaceMs(r, f)]
         ELSE NoWait

\* Mutant of Cleanup: the callback empties the registry when it ends.
CleanupClearsAll(id, tr, m) ==
  /\ scheduledJobs' = <<>>
  /\ pc' = [pc EXCEPT ![id] = "done"]
  /\ trace' = [trace EXCEPT ![id] = Append(tr, Event("delete", 0, "", ""))]
  /\ wait' = [wait EXCEPT ![id] = NoWait]
  /\ UNCHANGED idx

\* Mutant of Cleanup: the callback ends without deleting its entry.
CleanupNoDelete(id, tr, m) ==
  /\ scheduledJobs' = m
  /\ pc' = [pc EXCEPT ![id] = "done"]
  /\ trace' = [trace EXCEPT ![id] = Append(tr, Event("delete", 0, "", ""))]
  /\ wait' = [wait EXCEPT ![id] = NoWait]
  /\ UNCHANGED idx

\* finally { scheduledJobs.delete(id) }: the callback ends.  m is the
\* registry as the try block left it.
Cleanup(id, tr, m) ==
  /\ scheduledJobs' = MapDelete(m, id)
  /\ pc' = [pc EXCEPT ![id] = "done"]
  /\ trace' = [trace EXCEPT ![id] = Append(tr, Event("delete", 0, "", ""))]
  /\ wait' = [wait EXCEPT ![id] = NoWait]
  /\ UNCHANGED idx

\* Mutant of LoopFrom: the sends to all remaining positions are issued at once
\* and the callback suspends on the last of them.
LoopFromAllAtOnce(id, i, tr) ==
  LET params == closure[id]
      n == Len(params.groupIds)
      burst == [k \in 1..(n - i) |->
                  Event("send", i + k, params.groupIds[i + k], SendVariant(rev, params))]
  IN
  IF i < n
    THEN /\ pc' = [pc EXCEPT ![id] = "send"]
         /\ idx' = [idx EXCEPT ![id] = n]
         /\ trace' = [trace EXCEPT ![id] = tr \o burst]
         /\ wait' = [wait EXCEPT ![id] = NoWait]
         /\ UNCHANGED scheduledJobs
    ELSE Cleanup(id, tr, scheduledJobs)

\* Mutant of LoopFrom: the loop stops one position early.
LoopFromOffByOne(id, i, tr) ==
  LET params == closure[id] IN
  IF i < Len(params.groupIds) - 1
    THEN /\ pc' = [pc EXCEPT ![id] = "send"]
         /\ idx' = [idx EXCEPT ![id] = i + 1]
         /\ trace' = [trace EXCEPT ![id] =
              Append(tr, Event("send", i + 1, params.groupIds[i + 1],
                               SendVariant(rev, params)))]
         /\ wait' = [wait EXCEPT ![id] = NoWait]
         /\ UNCHANGED scheduledJobs
    ELSE Cleanup(id, tr, scheduledJobs)

\* The loop head after position i: issue the send to position i + 1 and
\* suspend on it, or leave the loop and clean up.
LoopFrom(id, i, tr) ==
  LET params == closure[id] IN
  IF i < Len(params.groupIds)
    THEN /\ pc' = [pc EXCEPT ![id] = "send"]
         /\ idx' = [idx EXCEPT ![id] = i + 1]
         /\ trace' = [trace EXCEPT ![id] =
              Append(tr, Event("send", i + 1, params.groupIds[i + 1],
                               SendVariant(rev, params)))]
         /\ wait' = [wait EXCEPT ![id] = NoWait]
         /\ UNCHANGED scheduledJobs
    ELSE Cleanup(id, tr, scheduledJobs)

\* Mutant of TimerFires: a callback starts only while no other is running.
TimerFiresExclusive(id) ==
  /\ \A other \in Ids : pc[other] \in {"idle", "done"}
  /\ timer[id].state = "armed"
  /\ now >= timer[id].due
  /\ timer' = [timer EXCEPT ![id] = [state |-> "fired", due |-> 0]]
  /\ pc' = [pc EXCEPT ![id] = "check"]
  /\ trace' = [trace EXCEPT ![id] = Append(@, Event("check", 0, closure[id].apiKey, ""))]
  /\ UNCHANGED <<call, rev, now, nextId, scheduledJobs, closure, idx, wait,
                 cancelled>>

\* Mutant of TimerFires: the timer stays armed after it has fired.
TimerFiresRearm(id) ==
  /\ timer[id].state = "armed"
  /\ now >= timer[id].due
  /\ timer' = timer
  /\ pc' = [pc EXCEPT ![id] = "check"]
  /\ trace' = [trace EXCEPT ![id] = Append(@, Event("check", 0, closure[id].apiKey, ""))]
  /\ UNCHANGED <<call, rev, now, nextId, scheduledJobs, closure, idx, wait, cancelled>>

\* The setTimeout callback starts: it runs up to await checkDeviceStatus().
TimerFires(id) ==
  /\ timer[id].state = "armed"
  /\ now >= timer[id].due
  /\ timer' = [timer EXCEPT ![id] = [state |-> "fired", due |-> 0]]
  /\ pc' = [pc EXCEPT ![id] = "check"]
  /\ trace' = [trace EXCEPT ![id] = Append(@, Event("check", 0, closure[id].apiKey, ""))]
  /\ UNCHANGED <<call, rev, now, nextId, scheduledJobs, closure, idx, wait,
                 cancelled>>

\* checkDeviceStatus() settles: skip the job, or enter the loop.
StatusReturns(id, resp) ==
  /\ pc[id] = "check"
  /\ LET sessionsResponse == CheckDeviceStatus(closure[id].apiKey, resp)
         tr == Append(trace[id], Event("status", 0, resp, ""))
     IN IF ~sessionsResponse.connected
          THEN Cleanup(id, Append(tr, Event("delete", 0, "", "")),
                       MapDelete(scheduledJobs, id))
          ELSE LoopFrom(id, 0, tr)
  /\ UNCHANGED <<call, rev, now, nextId, closure, timer, cancelled>>

\* The awaited status check rejects: the error is raised inside the outer try
\* and outside every per-destination try, so the outer catch logs it and the
\* finally block runs.  checkDeviceStatus of src/wasender_service.js catches
\* every error itself; this step is the Delivery Client interface of the
\* design ("checkStatus -> { connected } or error").
StatusThrows(id) ==
  /\ pc[id] = "check"
  /\ Cleanup(id, Append(trace[id], Event("fault", 0, "status", "")), scheduledJobs)
  /\ UNCHANGED <<call, rev, now, nextId, closure, timer, cancelled>>

\* Mutant of SendReturns: the try/catch encloses the loop instead of its
\* body, so a thrown send error ends the loop.
SendReturnsAbortOnThrow(id, out, f) ==
  /\ pc[id] = "send"
  /\ out \in SendOutcomes(rev, closure[id])
  /\ LET i == idx[id]
         tr == Append(trace[id], Event("result", i, ResultTag(out), ""))
         w == WaitAfterSend(rev, closure[id].groupIds, i, out, f)
     IN IF out.thrown
          THEN Cleanup(id, tr, scheduledJobs)
          ELSE IF w = NoWait
            THEN LoopFrom(id, i, tr)
            ELSE /\ pc' = [pc EXCEPT ![id] = "wait"]
                 /\ wait' = [wait EXCEPT ![id] = w]
                 /\ trace' = [trace EXCEPT ![id] = Append(tr, Event("wait", i, w.kind, ""))]
                 /\ UNCHANGED <<idx, scheduledJobs>>
  /\ UNCHANGED <<call, rev, now, nextId, closure, timer, cancelled>>

\* The awaited send of position idx[id] settles (returns out or throws it).
SendReturns(id, out, f) ==
  /\ pc[id] = "send"
  /\ out \in SendOutcomes(rev, closure[id])
  /\ LET i == idx[id]
         tr == Append(trace[id], Event("result", i, ResultTag(out), ""))
         w == WaitAfterSend(rev, closure[id].groupIds, i, out, f)
     IN IF w = NoWait
          THEN LoopFrom(id, i, tr)
          ELSE /\ pc' = [pc EXCEPT ![id] = "wait"]
               /\ wait' = [wait EXCEPT ![id] = w]
               /\ trace' = [trace EXCEPT ![id] = Append(tr, Event("wait", i, w.kind, ""))]
               /\ UNCHANGED <<idx, scheduledJobs>>
  /\ UNCHANGED <<call, rev, now, nextId, closure, timer, cancelled>>

\* Mutant of WaitElapses: after a backoff the failed position is sent again.
WaitElapsesRetry(id) ==
  /\ pc[id] = "wait"
  /\ LoopFrom(id, IF wait[id].kind = "backoff" THEN idx[id] - 1 ELSE idx[id], trace[id])
  /\ UNCHANGED <<call, rev, now, nextId, closure, timer, cancelled>>

\* The pacing or backoff timer of a callback elapses.
WaitElapses(id) ==
  /\ pc[id] = "wait"
  /\ LoopFrom(id, idx[id], trace[id])
  /\ UNCHANGED <<call, rev, now, nextId, closure, timer, cancelled>>

AllOutcomes == {SendMessageToGroup(k, resp) : k \in ApiKeys, resp \in ProviderResponses}
               \cup ImageSendOutcomes

Next ==
  \/ \E params \in ParamsSet : ScheduleBroadcast(params)
  \/ \E id \in AnyIds : CancelJob(id)
  \/ Tick
  \/ \E id \in Ids : TimerFires(id)
  \/ \E id \in Ids, resp \in StatusResponses : StatusReturns(id, resp)
  \/ \E id \in Ids, out \in AllOutcomes, f \in RandomFloors : SendReturns(id, out, f)
  \/ \E id \in Ids : WaitElapses(id)

Spec == Init /\ [][Next]_vars

\* The scheduler with a delivery client whose status check may raise.
FaultNext ==
  \/ Next
  \/ \E id \in Ids : StatusThrows(id)

FaultSpec == Init /\ [][FaultNext]_vars

\* ---------------------------------------------------- POST /api/schedule
\* Requests the route can receive.  A body or header field that is absent
\* is absent from the record; a groupIds value records whether it is an
\* array; a scheduledAt value is an ISO text or text no Date can parse.
MaxReqLen == 1
Opt(name, S) == {<<>>} \cup {[x \in {name} |-> v] : v \in S}
GroupIdsValues ==
  {[isArray |-> FALSE, items |-> <<>>], [isArray |-> TRUE, items |-> <<>>]}
    \cup {[isArray |-> TRUE, items |-> l] : l \in {g \in GroupLists : Len(g) <= MaxReqLen}}
ScheduledAtValues == {<<"garbage", 0>>} \cup {ToISOString(t) : t \in 0..MaxTime}
Bodies ==
  {g @@ m @@ a @@ u @@ h :
     g \in Opt("groupIds", GroupIdsValues), m \in Opt("message", {" ", "hello"}),
     a \in Opt("scheduledAt", ScheduledAtValues), u \in Opt("imageUrl", ImageUrls),
     h \in Opt("hasImage", {TRUE})}
Headers ==
  {a @@ x : a \in Opt("authorization", {"Bearer key1"}), x \in Opt("x-user-phone", Phones)}
Requests == [body : Bodies, headers : Headers]

\* new Date(scheduledAt): valid for an ISO text, Invalid Date (NaN) otherwise.
DateParse(s) == [valid |-> s[1] = "iso", ms |-> IF s[1] = "iso" THEN s[2] ELSE 0]

\* authorization?.replace('Bearer ', '')
RemoveBearer(s) == IF s = "Bearer key1" THEN "key1" ELSE s

\* The HTTP status the route answers with at clock value t.
RouteStatus(req, t) ==
  LET b == req.body
      h == req.headers
  IN IF ~Has(b, "groupIds") \/ ~b.groupIds.isArray \/ Len(b.groupIds.items) = 0 THEN 400
     ELSE IF (~TruthyStr(b, "message") \/ Trim(b.message) = "") /\ ~TruthyBool(b, "hasImage")
       THEN 400
     ELSE IF ~Has(b, "scheduledAt") THEN 400
     ELSE IF ~DateParse(b.scheduledAt).valid THEN 400
     ELSE IF DateParse(b.scheduledAt).ms <= t THEN 400
     ELSE IF ~Has(h, "authorization") \/ RemoveBearer(h.authorization) = ""
             \/ ~TruthyStr(h, "x-user-phone") THEN 401
     ELSE 200

\* The jobData object the route passes to scheduleBroadcast.
JobData(req) ==
  LET b == req.body
      base == [groupIds |-> b.groupIds.items,
               message |-> IF TruthyStr(b, "message") /\ Trim(b.message) # ""
                             THEN Trim(b.message) ELSE "",
               runAtMs |-> DateParse(b.scheduledAt).ms,
               apiKey |-> RemoveBearer(req.headers.authorization),
               phoneNumber |-> req.headers["x-user-phone"]]
  IN IF TruthyBool(b, "hasImage") /\ TruthyStr(b, "imageUrl")
       THEN base @@ [imageUrl |-> b.imageUrl, hasImage |-> TRUE]
       ELSE base

\* app.post('/api/schedule', ...): every rejection returns before
\* scheduleBroadcast is called.
PostSchedule(req) ==
  IF RouteStatus(req, now) = 200
    THEN ScheduleBroadcast(JobData(req))
    ELSE UNCHANGED vars

\* The server: jobs enter the registry through the route only.
RouteNext ==
  \/ \E req \in Requests : PostSchedule(req)
  \/ \E id \in AnyIds : CancelJob(id)
  \/ Tick
  \/ \E id \in Ids : TimerFires(id)
  \/ \E id \in Ids, resp \in StatusResponses : StatusReturns(id, resp)
  \/ \E id \in Ids, out \in AllOutcomes, f \in RandomFloors : SendReturns(id, out, f)
  \/ \E id \in Ids : WaitElapses(id)

RouteSpec == Init /\ [][RouteNext]_vars


\* ------------------------------------------- calls of the client layer
\* One call of a method of the delivery client (src/wasender_service.js), of
\* waitForSessionConnection (src/message_sender.js) or of the session service
\* (src/qr_generation_service.js) is followed from its invocation to its
\* return: call.pc is the await the method is suspended on, call.log what it
\* has done so far, call.ret what it returned or threw.
MaxAttempts == 3
MaxSessions == 3

Environments == [apiKey : {"", "envkey"}, deviceId : {"", "envdev"}]
Instances ==
  {NewWasenderService(k, d, env) :
     k \in {""} \cup ApiKeys, d \in {"", "dev1"}, env \in Environments}
GroupArrays == {<<>>} \cup GroupLists
NoRet == [thrown |-> FALSE, value |-> <<>>]
Returns(c, v) == [c EXCEPT !.pc = "returned", !.ret = [thrown |-> FALSE, value |-> v]]
Throws(c, msg) ==
  [c EXCEPT !.pc = "thrown", !.ret = [thrown |-> TRUE, value |-> [error |-> msg]]]
Logged(c, e) == [c EXCEPT !.log = Append(@, e)]

NewCall(fn, inst, list, max) ==
  [fn |-> fn, pc |-> "called", inst |-> inst, list |-> list, max |-> max,
   i |-> 0, results |-> <<>>, successCount |-> 0, sess |-> <<>>, log |-> <<>>,
   ret |-> NoRet]

MasterInstance == [apiKey |-> "master", deviceId |-> ""]
Calls ==
  {NewCall("sendMessageToGroup", inst, <<g>>, 0) : inst \in Instances, g \in Groups}
  \cup {NewCall("sendMessagesToGroups", inst, l, 0) :
          inst \in Instances, l \in GroupArrays}
  \cup {NewCall("waitForSessionConnection", inst, <<>>, n) :
          inst \in Instances, n \in 0..MaxAttempts}
  \cup {NewCall("pollConnectionStatus", MasterInstance, <<>>, n) : n \in 0..MaxAttempts}
  \cup {NewCall("deleteAllSessions", MasterInstance, <<>>, 0),
        NewCall("generateQRForNewUser", MasterInstance, <<>>, 0)}

ServiceInit ==
  /\ rev = "A"
  /\ now = 0
  /\ nextId = 1
  /\ scheduledJobs = <<>>
  /\ closure = <<>>
  /\ timer = [id \in Ids |-> NoTimer]
  /\ pc = [id \in Ids |-> "idle"]
  /\ idx = [id \in Ids |-> 0]
  /\ wait = [id \in Ids |-> NoWait]
  /\ trace = [id \in Ids |-> <<>>]
  /\ cancelled = [id \in Ids |-> "no"]
  /\ call \in Calls

Running(fn, at) == call.fn = fn /\ call.pc = at

\* ---- WasenderService.sendMessageToGroup
\* The method runs up to the awaited post.
SendMessageToGroupStart ==
  /\ Running("sendMessageToGroup", "called")
  /\ call' = [Logged(call, Event("send", 1, call.list[1], "")) EXCEPT !.pc = "post"]
  /\ UNCHANGED schedVars

\* The post settles and the method runs to its end.
SendMessageToGroupSettles(resp) ==
  /\ Running("sendMessageToGroup", "post")
  /\ LET result == SendMessageToGroupOf(call.inst, resp)
         c == Logged(call, Event("result", 1, resp, ""))
     IN call' = IF result.thrown THEN Throws(c, result.error)
                ELSE Returns(c, [success |-> result.success, error |-> result.error])
  /\ UNCHANGED schedVars

\* ---- WasenderService.sendMessagesToGroups
\* Mutant of PaceAfterGroup: the wait follows every group.
PaceAfterGroupAlways(i, n) == TRUE

\* The guard of the wait after the send of position i (1-based) of n groups.
PaceAfterGroup(i, n) == i - 1 < n - 1

\* The entry pushed on results for a group.
GroupResult(groupId, result) ==
  IF ~result.thrown /\ result.success
    THEN [groupId |-> groupId, success |-> TRUE, error |-> ""]
    ELSE [groupId |-> groupId, success |-> FALSE, error |-> result.error]

\* The loop head at position i: the next send, or the summary after the loop.
GroupLoop(c, i) ==
  IF i - 1 < Len(c.list)
    THEN [Logged(c, Event("send", i, c.list[i], "")) EXCEPT !.pc = "send", !.i = i]
    ELSE Returns(c, [totalGroups |-> Len(c.list),
                     successCount |-> c.successCount,
                     failedCount |-> Len(c.list) - c.successCount,
                     results |-> c.results])

SendMessagesToGroupsStart ==
  /\ Running("sendMessagesToGroups", "called")
  /\ call' = GroupLoop(call, 1)
  /\ UNCHANGED schedVars

\* The awaited sendMessageToGroup of position call.i settles.
GroupSendSettles(resp) ==
  /\ Running("sendMessagesToGroups", "send")
  /\ LET i == call.i
         result == SendMessageToGroupOf(call.inst, resp)
         c == [Logged(call, Event("result", i, resp, "")) EXCEPT
                 !.results = Append(@, GroupResult(call.list[i], result)),
                 !.successCount = IF ~result.thrown /\ result.success THEN @ + 1 ELSE @]
     IN call' = IF ~result.thrown /\ PaceAfterGroup(i, Len(call.list))
                  THEN [Logged(c, Event("wait", i, "pace", "")) EXCEPT !.pc = "wait"]
                  ELSE GroupLoop(c, i + 1)
  /\ UNCHANGED schedVars

\* The wait between two groups elapses.
GroupWaitElapses ==
  /\ Running("sendMessagesToGroups", "wait")
  /\ call' = GroupLoop(call, call.i + 1)
  /\ UNCHANGED schedVars

\* ---- waitForSessionConnection (src/message_sender.js)
ConnectionTimeout ==
  [success |-> FALSE, connected |-> FALSE, error |-> "WhatsApp session connection timeout"]

\* Mutant of WaitForSessionConnectionLoop: one check more than maxAttempts.
WaitForSessionConnectionLoopOneMore(c, attempt) ==
  IF attempt <= c.max + 1
    THEN [Logged(c, Event("check", attempt, "", "")) EXCEPT !.pc = "check", !.i = attempt]
    ELSE Returns(c, ConnectionTimeout)

\* The loop head at attempt: the next status check, or the timeout result.
WaitForSessionConnectionLoop(c, attempt) ==
  IF attempt <= c.max
    THEN [Logged(c, Event("check", attempt, "", "")) EXCEPT !.pc = "check", !.i = attempt]
    ELSE Returns(c, ConnectionTimeout)

WaitForSessionConnectionStart ==
  /\ Running("waitForSessionConnection", "called")
  /\ call' = WaitForSessionConnectionLoop(call, 1)
  /\ UNCHANGED schedVars

\* The awaited checkDeviceStatus of attempt call.i settles.
WaitForSessionConnectionChecked(resp) ==
  /\ Running("waitForSessionConnection", "check")
  /\ LET statusResult == CheckDeviceStatus(call.inst.apiKey, resp)
         c == Logged(call, Event("status", call.i, resp, ""))
     IN call' = IF statusResult.connected
                  THEN Returns(c, [success |-> TRUE, connected |-> TRUE, error |-> ""])
                ELSE IF call.i < call.max
                  THEN [Logged(c, Event("wait", call.i, "delay", "")) EXCEPT !.pc = "wait"]
                ELSE WaitForSessionConnectionLoop(c, call.i + 1)
  /\ UNCHANGED schedVars

WaitForSessionConnectionDelayed ==
  /\ Running("waitForSessionConnection", "wait")
  /\ call' = WaitForSessionConnectionLoop(call, call.i + 1)
  /\ UNCHANGED schedVars

\* ---- QRGenerationService.pollConnectionStatus
\* checkConnectionStatus: the status of the answer, or the request's error.
CheckConnectionStatus(resp) ==
  IF resp = "http_error"
    THEN [thrown |-> TRUE, connected |-> FALSE, status |-> ""]
    ELSE [thrown |-> FALSE, connected |-> (resp = "connected"), status |-> resp]

\* The loop head at attempt: the next status check, or the timeout error.
PollConnectionStatusLoop(c, attempt) ==
  IF attempt <= c.max
    THEN [Logged(c, Event("check", attempt, "", "")) EXCEPT !.pc = "check", !.i = attempt]
    ELSE Throws(c, "Connection timeout - QR code not scanned within expected time")

PollConnectionStatusStart ==
  /\ Running("pollConnectionStatus", "called")
  /\ call' = PollConnectionStatusLoop(call, 1)
  /\ UNCHANGED schedVars

\* The awaited checkConnectionStatus of attempt call.i settles; an error is
\* logged by the catch block, which goes to the next attempt without a wait.
PollConnectionStatusChecked(resp) ==
  /\ Running("pollConnectionStatus", "check")
  /\ LET status == CheckConnectionStatus(resp)
         c == Logged(call, Event("status", call.i, resp, ""))
     IN call' = IF status.thrown THEN PollConnectionStatusLoop(c, call.i + 1)
                ELSE IF status.connected
                  THEN Returns(c, [connected |-> TRUE, status |-> status.status])
                ELSE IF call.i < call.max
                  THEN [Logged(c, Event("wait", call.i, "delay", "")) EXCEPT !.pc = "wait"]
                ELSE PollConnectionStatusLoop(c, call.i + 1)
  /\ UNCHANGED schedVars

PollConnectionStatusDelayed ==
  /\ Running("pollConnectionStatus", "wait")
  /\ call' = PollConnectionStatusLoop(call, call.i + 1)
  /\ UNCHANGED schedVars

\* ---- QRGenerationService.deleteAllSessions
\* What getAllSessions settles with: a request error, a body saying
\* success: false, a body without data, or a list of n sessions.
ListResponses ==
  {[kind |-> k, n |-> 0] : k \in {"http_error", "success_false", "null"}}
    \cup {[kind |-> "list", n |-> n] : n \in 0..MaxSessions}
StepResponses == {"ok", "success_false", "http_error"}

\* The message of the error a step of the session service raises.
StepErrorMessage(prefix, resp) ==
  IF resp = "success_false" THEN prefix ELSE "Request failed with status code 500"

Settled(st) == st \in {"deleted", "failed"}
CountOf(sess, st) == Cardinality({k \in DOMAIN sess : sess[k] = st})

\* The value returned once Promise.all has settled.
DeleteSummary(sess) ==
  [success |-> TRUE, deletedCount |-> CountOf(sess, "deleted"),
   failedCount |-> CountOf(sess, "failed"),
   results |-> [k \in DOMAIN sess |-> [sessionId |-> k, success |-> sess[k] = "deleted"]]]

DeleteAllSessionsStart ==
  /\ Running("deleteAllSessions", "called")
  /\ call' = [call EXCEPT !.pc = "list"]
  /\ UNCHANGED schedVars

\* The awaited getAllSessions settles.  With sessions listed, map() runs every
\* callback up to its first await, so every disconnect is issued in this step.
SessionsListed(resp) ==
  /\ Running("deleteAllSessions", "list")
  /\ call' =
       IF resp.kind = "http_error" THEN Throws(call, StepErrorMessage("", resp.kind))
       ELSE IF resp.kind = "success_false"
         THEN Throws(call, StepErrorMessage("Failed to get sessions: Unknown error", resp.kind))
       ELSE IF resp.kind = "null" \/ resp.n = 0
         THEN Returns(call, [success |-> TRUE, message |-> "No sessions to delete",
                             deletedCount |-> 0])
       ELSE [call EXCEPT !.pc = "all",
                         !.list = [k \in 1..resp.n |-> k],
                         !.sess = [k \in 1..resp.n |-> "disconnect"],
                         !.log = @ \o [k \in 1..resp.n |-> Event("disconnect", k, "", "")]]
  /\ UNCHANGED schedVars

\* The awaited disconnectSession of session k settles: the callback issues
\* the delete, or its catch block returns the failure of this session.
DisconnectSettles(k, resp) ==
  /\ Running("deleteAllSessions", "all")
  /\ k \in DOMAIN call.sess
  /\ call.sess[k] = "disconnect"
  /\ call' =
       IF resp = "ok"
         THEN [Logged(Logged(call, Event("disconnected", k, resp, "")),
                      Event("delete", k, "", ""))
                 EXCEPT !.sess[k] = "delete"]
         ELSE [Logged(call, Event("disconnected", k, resp, "")) EXCEPT !.sess[k] = "failed"]
  /\ UNCHANGED schedVars

\* The awaited deleteSession of session k settles (it tests no body).
DeleteSettles(k, resp) ==
  /\ Running("deleteAllSessions", "all")
  /\ k \in DOMAIN call.sess
  /\ call.sess[k] = "delete"
  /\ call' = [Logged(call, Event("deleted", k, resp, ""))
                EXCEPT !.sess[k] = IF resp = "http_error" THEN "failed" ELSE "deleted"]
  /\ UNCHANGED schedVars

\* Promise.all resolves once every callback has returned.
AllSettled ==
  /\ Running("deleteAllSessions", "all")
  /\ \A k \in DOMAIN call.sess : Settled(call.sess[k])
  /\ call' = Returns(call, DeleteSummary(call.sess))
  /\ UNCHANGED schedVars

\* ---- QRGenerationService.generateQRForNewUser
\* An awaited step that succeeded is followed by the invocation of the next.
Invokes(c, step) == [Logged(c, Event("invoke", 0, step, "")) EXCEPT !.pc = step]

\* Mutant of StepSettles: the error of a failed step is swallowed and the
\* next step is invoked.
StepSettlesIgnoresFailure(c, step, resp, prefix, next) ==
  Invokes(Logged(c, Event("settle", 0, step, resp)), next)

\* A step settles: the next is invoked, or the step's error reaches the catch
\* block of generateQRForNewUser, which re-throws it.
StepSettles(c, step, resp, prefix, next) ==
  IF resp = "ok" THEN Invokes(Logged(c, Event("settle", 0, step, resp)), next)
  ELSE Throws(Logged(c, Event("settle", 0, step, resp)), StepErrorMessage(prefix, resp))

GenerateQRStart ==
  /\ Running("generateQRForNewUser", "called")
  /\ call' = Invokes(call, "createSession")
  /\ UNCHANGED schedVars

CreateSessionSettles(resp) ==
  /\ Running("generateQRForNewUser", "createSession")
  /\ call' = StepSettles(call, "createSession", resp,
                         "Session creation failed: Unknown error", "connectSession")
  /\ UNCHANGED schedVars

\* connectSession settles; on success the 2 s initialisation wait starts.
ConnectSessionSettles(resp) ==
  /\ Running("generateQRForNewUser", "connectSession")
  /\ call' = StepSettles(call, "connectSession", resp,
                         "Session connection failed: Unknown error", "initWait")
  /\ UNCHANGED schedVars

\* The initialisation wait elapses and getQRCode is invoked.
InitWaitElapses ==
  /\ Running("generateQRForNewUser", "initWait")
  /\ call' = Invokes(Logged(call, Event("settle", 0, "initWait", "ok")), "getQRCode")
  /\ UNCHANGED schedVars

GetQRCodeSettles(resp) ==
  /\ Running("generateQRForNewUser", "getQRCode")
  /\ call' = StepSettles(call, "getQRCode", resp,
                         "QR code retrieval failed: Unknown error", "convertQRToImage")
  /\ UNCHANGED schedVars

\* qrcode.toBuffer settles: the success value is returned, or the
\* conversion error is raised.
ConvertQRToImageSettles(resp) ==
  /\ Running("generateQRForNewUser", "convertQRToImage")
  /\ call' =
       LET c == Logged(call, Event("settle", 0, "convertQRToImage", resp))
       IN IF resp = "ok" THEN Returns(c, [success |-> TRUE, sessionId |-> "s1"])
          ELSE Throws(c, "QR image conversion failed")
  /\ UNCHANGED schedVars

ServiceNext ==
  \/ SendMessageToGroupStart
  \/ \E resp \in SendResponses : SendMessageToGroupSettles(resp)
  \/ SendMessagesToGroupsStart
  \/ \E resp \in SendResponses : GroupSendSettles(resp)
  \/ GroupWaitElapses
  \/ WaitForSessionConnectionStart
  \/ \E resp \in StatusResponses : WaitForSessionConnectionChecked(resp)
  \/ WaitForSessionConnectionDelayed
  \/ PollConnectionStatusStart
  \/ \E resp \in StatusResponses : PollConnectionStatusChecked(resp)
  \/ PollConnectionStatusDelayed
  \/ DeleteAllSessionsStart
  \/ \E resp \in ListResponses : SessionsListed(resp)
  \/ \E k \in 1..MaxSessions, resp \in StepResponses : DisconnectSettles(k, resp)
  \/ \E k \in 1..MaxSessions, resp \in StepResponses : DeleteSettles(k, resp)
  \/ AllSettled
  \/ GenerateQRStart
  \/ \E resp \in StepResponses : CreateSessionSettles(resp)
  \/ \E resp \in StepResponses : ConnectSessionSettles(resp)
  \/ InitWaitElapses
  \/ \E resp \in StepResponses : GetQRCodeSettles(resp)
  \/ \E resp \in {"ok", "error"} : ConvertQRToImageSettles(resp)

ServiceSpec == ServiceInit /\ [][ServiceNext]_vars

\* ------------------------------------------------------- reading a history
Sel(tr, t) == SelectSeq(tr, LAMBDA e : e.type = t)
Sends(id) == Sel(trace[id], "send")
Results(id) == Sel(trace[id], "result")
Waits(id) == Sel(trace[id], "wait")
Deletes(id) == Sel(trace[id], "delete")
Checks(id) == Sel(trace[id], "check")
Issued(id) == MapHas(closure, id)
SawConnected(id) == \E p \in 1..Len(trace[id]) :
  trace[id][p].type = "status" /\ trace[id][p].a = "connected"
SawNotConnected(id) == \E p \in 1..Len(trace[id]) :
  trace[id][p].type = "status" /\ trace[id][p].a # "connected"
AllSucceeded(id) == \A p \in 1..Len(Results(id)) : Results(id)[p].a = "ok"
\* The send events a full walk of the destination list issues, in order.
ExpectedSends(id) ==
  [k \in 1..Len(closure[id].groupIds) |->
     Event("send", k, closure[id].groupIds[k], SendVariant(rev, closure[id]))]
\* The send and result events of a callback, in the order they happened.
SendsAndResults(id) == SelectSeq(trace[id], LAMBDA e : e.type \in {"send", "result"})
\* The per-destination outcomes the program keeps for a job.  The only data a
\* job has outside its callback's locals is its registry record; the value a
\* send returns is logged and dropped.
RecordedResults(id) ==
  IF MapHas(scheduledJobs, id) /\ "results" \in DOMAIN scheduledJobs[id]
    THEN scheduledJobs[id].results
    ELSE <<>>
Faulted(id) == \E p \in 1..Len(trace[id]) : trace[id][p].type = "fault"
IsPrefix(a, b) == Len(a) <= Len(b) /\ \A k \in 1..Len(a) : a[k] = b[k]

\* ------------------------------------------------------------------ claims

\* C1: cancelling a job whose activation timer has not fired returns true
\* (an armed timer always has its job in the registry, which is what
\* cancelJob tests); from then on getJob(id) is not-found and the job's
\* callback never runs: no status check and no send is ever issued for it.
C1_CancelBeforeActivation ==
  \A id \in Ids :
    /\ timer[id].state = "armed" => CancelResult(id)
    /\ cancelled[id] = "early" =>
         /\ GetJob(id) = Null
         /\ trace[id] = <<>>
         /\ pc[id] = "idle"
         /\ timer[id].state = "cleared"

\* A job cancelled before activation, seen when the clock has passed every
\* activation time and the other job has already run to its end.
C1_Witness ==
  \E id \in Ids, other \in Ids :
    /\ cancelled[id] = "early" /\ now = MaxTime
    /\ closure[id].groupIds = <<"g1">>
    /\ pc[other] = "done"

\* C2 (as claimed): once a job's timer has fired, cancelJob(id) never returns
\* true.  The code keeps the registry entry until the callback's cleanup, so
\* cancelJob finds it and returns true while the dispatch is in progress.
C2_NoCancelAfterActivation ==
  \A id \in Ids : cancelled[id] # "late"

\* C3: in a connected job whose sends all succeed, the send attempts are
\* exactly the N list positions in input order, each issued after the
\* previous one has settled, and the callback's delete comes last, after the
\* N-th result; until then only a cancelJob call can remove the entry.
C3_AllSendsInOrderThenDelete ==
  \A id \in Ids :
    (Issued(id) /\ SawConnected(id) /\ AllSucceeded(id)) =>
      /\ IsPrefix(Sends(id), ExpectedSends(id))
      /\ Len(Sends(id)) - Len(Results(id)) = (IF pc[id] = "send" THEN 1 ELSE 0)
      /\ IF pc[id] = "done"
           THEN /\ Sends(id) = ExpectedSends(id)
                /\ Len(Results(id)) = Len(closure[id].groupIds)
                /\ Len(Deletes(id)) = 1
                /\ trace[id][Len(trace[id])].type = "delete"
                /\ ~MapHas(scheduledJobs, id)
           ELSE /\ Deletes(id) = <<>>
                /\ cancelled[id] = "no" => MapHas(scheduledJobs, id)

\* A three-destination job, never cancelled, whose three sends succeeded.
C3_Witness ==
  \E id \in Ids :
    /\ pc[id] = "done" /\ SawConnected(id) /\ AllSucceeded(id)
    /\ cancelled[id] = "no"
    /\ closure[id].groupIds = <<"g2", "g1", "g2">>
    /\ Len(Results(id)) = 3

\* C4 (as claimed): when every send of a connected job succeeds, the callback
\* makes exactly N-1 pacing waits, one after each non-last send, and none
\* after the last.  Revision A decides by indexOf(groupId), so a list that
\* repeats its last destination waits after the last send as well.
C4_PacingWaitsBetweenSends ==
  \A id \in Ids :
    (pc[id] = "done" /\ SawConnected(id) /\ AllSucceeded(id)) =>
      /\ Len(Waits(id)) = Len(closure[id].groupIds) - 1
      /\ \A p \in 1..Len(Waits(id)) :
           Waits(id)[p].a = "pace" /\ Waits(id)[p].idx = p

\* C5: when the status check at activation does not report connected, no send
\* is issued, the check is not repeated, and the callback ends with the job
\* removed from the registry.
C5_NotConnectedSkipsJob ==
  \A id \in Ids :
    SawNotConnected(id) =>
      /\ Sends(id) = <<>>
      /\ Len(Checks(id)) = 1
      /\ pc[id] = "done"
      /\ ~MapHas(scheduledJobs, id)

\* A job skipped because the session was not connected, and one skipped
\* because the status request failed.
C5_Witness ==
  \E id \in Ids, other \in Ids :
    /\ id # other
    /\ \E p \in 1..Len(trace[id]) :
         trace[id][p].type = "status" /\ trace[id][p].a = "disconnected"
    /\ \E p \in 1..Len(trace[other]) :
         trace[other][p].type = "status" /\ trace[other][p].a = "http_error"


\* C6 (as claimed): a send to a non-last destination that fails with the
\* provider's 429 is followed by the extended backoff (BackoffMs, longer than
\* any pacing interval) before the next destination is attempted, and the
\* remaining destinations are attempted.  The scheduler recognises a 429 only
\* in a thrown error; sendMessageToGroup returns the failure as a value, and
\* the callback then makes the ordinary pacing wait.
C6_BackoffAfterRateLimit ==
  \A id \in Ids :
    /\ \A p \in 1..Len(trace[id]) :
         ( /\ trace[id][p].type = "result"
           /\ trace[id][p].a \in {"fail429", "throw429"}
           /\ trace[id][p].idx < Len(closure[id].groupIds) ) =>
             /\ p < Len(trace[id])
             /\ trace[id][p + 1].type = "wait"
             /\ trace[id][p + 1].a = "backoff"
    /\ wait[id].kind = "backoff" =>
         /\ wait[id].ms = BackoffMs
         /\ \A f \in RandomFloors : wait[id].ms > PaceMs(rev, f)
    /\ (pc[id] = "done" /\ SawConnected(id)) => Sends(id) = ExpectedSends(id)

\* C7: once a job's timer has fired, its callback reaches cleanup and the job
\* is out of the registry, whatever the status check and the sends answer
\* (every awaited call and every wait eventually settles).
C7_FiredEventuallyDeleted ==
  \A id \in Ids :
    (timer[id].state = "fired") ~> (pc[id] = "done" /\ ~MapHas(scheduledJobs, id))

\* A job cleaned up after one send threw and another returned a failure.
C7_Witness ==
  \E id \in Ids :
    /\ pc[id] = "done" /\ ~MapHas(scheduledJobs, id) /\ cancelled[id] = "no"
    /\ \E p \in 1..Len(Results(id)) : Results(id)[p].a = "throw"
    /\ \E p \in 1..Len(Results(id)) : Results(id)[p].a = "fail"

\* C8: in a connected job every list position is attempted, in order,
\* whatever the earlier sends did: returned success, returned an error, threw,
\* or failed with a rate-limit error.
C8_FailureNeverAbortsBatch ==
  \A id \in Ids :
    (Issued(id) /\ SawConnected(id)) =>
      /\ IsPrefix(Sends(id), ExpectedSends(id))
      /\ pc[id] \in {"send", "wait"} => Len(Sends(id)) = idx[id]
      /\ pc[id] = "done" => Sends(id) = ExpectedSends(id)

\* Three destinations attempted although the first send threw a rate-limit
\* error, the second returned a failure and the third threw.
C8_Witness ==
  \E id \in Ids :
    /\ pc[id] = "done" /\ Len(Sends(id)) = 3
    /\ Results(id)[1].a = "throw429"
    /\ Results(id)[2].a = "fail"
    /\ Results(id)[3].a = "throw"

\* C9: the dispatch routine of a job starts at most once; it has started
\* exactly once when the job's timer has fired, and not at all while the
\* timer is armed or after the job was cancelled before the timer fired.
C9_OneDispatchPerJob ==
  \A id \in Ids :
    /\ Len(Checks(id)) = (IF timer[id].state = "fired" THEN 1 ELSE 0)
    /\ cancelled[id] = "early" => timer[id].state = "cleared"
    /\ timer[id].state = "cleared" => cancelled[id] = "early"
    /\ pc[id] # "idle" <=> timer[id].state = "fired"

\* One job has run to its end and the other was cancelled before its timer
\* fired, with the clock past every activation time.
C9_Witness ==
  \E id \in Ids, other \in Ids :
    /\ pc[id] = "done" /\ Len(Checks(id)) = 1
    /\ cancelled[other] = "early" /\ now = MaxTime

\* C10: a job record is in the registry if and only if the job has been
\* scheduled, cancelJob has not returned true for it, and its callback has
\* not reached cleanup.
C10_RegistryPresence ==
  /\ DOMAIN scheduledJobs \subseteq Ids
  /\ \A id \in Ids :
       MapHas(scheduledJobs, id) <=>
         (Issued(id) /\ cancelled[id] = "no" /\ pc[id] # "done")

\* One job is live in the middle of its dispatch, the other was removed by a
\* cancelJob call while its dispatch was in progress.
C10_Witness ==
  \E id \in Ids, other \in Ids :
    /\ MapHas(scheduledJobs, id) /\ pc[id] = "send"
    /\ cancelled[other] = "late" /\ pc[other] = "wait"

\* C11: a scheduleBroadcast call with an activation time in the future leaves
\* listJobs() with exactly one entry under the issued id; that entry carries
\* the requested activation time and status "scheduled", whatever other jobs
\* are in the registry.
C11_ListedAfterSchedule ==
  [][nextId' # nextId =>
     \A params \in ParamsSet :
       (ScheduleBroadcast(params) /\ params.runAtMs > now) =>
         LET id == String(nextId)
             hits == {k \in 1..Len(ListJobs') : ListJobs'[k].id = id}
         IN /\ Cardinality(hits) = 1
            /\ \A k \in hits : /\ ListJobs'[k].runAtMs = params.runAtMs
                               /\ ListJobs'[k].status = "scheduled"]_vars

\* A job scheduled for a later time is listed next to another live job.
C11_Witness ==
  /\ MapHas(scheduledJobs, "1") /\ MapHas(scheduledJobs, "2")
  /\ timer["2"].state = "armed" /\ timer["2"].due > now
  /\ Len(ListJobs) = 2 /\ ListJobs[2].id = "2"
  /\ ListJobs[2].runAtMs = timer["2"].due

\* C12: cancelJob(id) returns false for an id that was never issued, for a job
\* that has completed and for a job that was already cancelled, and such a call
\* changes neither the registry nor any timer.
C12_CancelUnknownIsNoop ==
  \A id \in AnyIds :
    (\/ Phase(id) \in {"unissued", "completed", "cancelled"}
     \/ (id \in Ids /\ cancelled[id] # "no")) =>
      /\ ~CancelResult(id)
      /\ ~ENABLED (CancelJob(id) /\ <<scheduledJobs, timer>>' # <<scheduledJobs, timer>>)

\* Id "1" has completed, id "2" was cancelled before its timer fired and id
\* "3" was never issued.
C12_Witness ==
  /\ Phase("1") = "completed" /\ cancelled["1"] = "no"
  /\ Phase("2") = "cancelled" /\ cancelled["2"] = "early"
  /\ Phase("3") = "unissued"

\* C13: the view getJob(id) returns for a live job has no apiKey field.
C13_GetJobHidesCredential ==
  \A id \in Ids :
    MapHas(scheduledJobs, id) => "apiKey" \notin DOMAIN GetJob(id)

\* C14: no entry of listJobs() has an apiKey or a timer-handle field, and the
\* listing does not depend on the credentials stored in the registry: the same
\* registry with every apiKey replaced yields the same listing.
OtherKey == "key2"
Recredential(m) == [k \in DOMAIN m |-> [m[k] EXCEPT !.apiKey = OtherKey]]
C14_ListJobsHidesCredential ==
  /\ \A k \in 1..Len(ListJobs) : DOMAIN ListJobs[k] \cap {"apiKey", "timeout"} = {}
  /\ ListJobsOf(Recredential(scheduledJobs)) = ListJobs

\* Two jobs are listed, each stored with a credential.
C14_Witness ==
  /\ Len(ListJobs) = 2
  /\ \A id \in Ids : MapHas(scheduledJobs, id) /\ scheduledJobs[id].apiKey \in ApiKeys
  /\ Recredential(scheduledJobs) # scheduledJobs

\* C15: getJob(id) right after scheduleBroadcast(params) returns a view whose
\* groupIds (same order), message, image reference and runAtMs are the values
\* passed in.
C15_GetJobRoundTrip ==
  [][nextId' # nextId =>
     \A params \in ParamsSet, id \in Ids :
       (ScheduleBroadcast(params) /\ id = String(nextId)) =>
         LET view == GetJob(id)'
         IN /\ view # Null
            /\ view.groupIds = params.groupIds
            /\ view.message = params.message
            /\ view.runAtMs = params.runAtMs
            /\ Has(params, "imageUrl") =>
                 /\ "imageUrl" \in DOMAIN view
                 /\ view.imageUrl = params.imageUrl]_vars

\* C16: scheduleBroadcast with an activation time in the past or equal to now
\* succeeds with delay 0: the job is registered and its timer armed for the
\* current instant before any status check or send of that job, and the timer
\* can fire without the clock advancing.
C16_PastActivationRunsAtOnce ==
  [][nextId' # nextId =>
     \A params \in ParamsSet, id \in Ids :
       (ScheduleBroadcast(params) /\ id = String(nextId) /\ params.runAtMs <= now) =>
         /\ Delay(params.runAtMs, now) = 0
         /\ MapHas(scheduledJobs', id)
         /\ timer'[id] = [state |-> "armed", due |-> now]
         /\ trace'[id] = <<>> /\ pc'[id] = "idle"
         /\ timer'[id].due <= now']_vars

\* A job whose activation time lies in the past is registered, its timer due.
C16_Witness ==
  \E id \in Ids :
    /\ MapHas(scheduledJobs, id) /\ scheduledJobs[id].runAtMs < now
    /\ timer[id] = [state |-> "armed", due |-> now]
    /\ trace[id] = <<>>
    /\ ENABLED TimerFires(id)

\* C17: ids are unique and monotonic: the id a scheduleBroadcast call issues is
\* greater, as a number, than every id issued before; it is not a key of the
\* registry, so no entry is overwritten, and it was never issued before.
C17_IdsUniqueMonotonic ==
  [][closure' # closure =>
     \A params \in ParamsSet, id \in Ids :
       (ScheduleBroadcast(params) /\ id = String(nextId)) =>
         /\ \A old \in DOMAIN closure : Number(id) > Number(old)
         /\ id \notin DOMAIN closure
         /\ id \notin DOMAIN scheduledJobs
         /\ timer[id].state = "none"
         /\ DOMAIN scheduledJobs' = DOMAIN scheduledJobs \cup {id}
         /\ \A old \in DOMAIN scheduledJobs : scheduledJobs'[old] = scheduledJobs[old]]_vars

\* Two ids have been issued; the first job has completed and left the
\* registry, the second is registered under the next number.
C17_Witness ==
  /\ Phase("1") = "completed" /\ ~MapHas(scheduledJobs, "1")
  /\ MapHas(scheduledJobs, "2") /\ trace["2"] = <<>>
  /\ nextId = 3 /\ Number("2") > Number("1")

\* C18: within one job the destinations are contacted strictly in list order,
\* one at a time: the send to position k+1 is issued only after the send to
\* position k has returned, so at most one send of the job is in flight, and
\* one is in flight exactly while the callback is suspended on it.
C18_SendsSequentialInOrder ==
  \A id \in Ids :
    Issued(id) =>
      LET sr == SendsAndResults(id) IN
      /\ \A p \in 1..Len(sr) :
           /\ sr[p].type = (IF p % 2 = 1 THEN "send" ELSE "result")
           /\ sr[p].idx = (p + 1) \div 2
           /\ sr[p].type = "send" => sr[p].a = closure[id].groupIds[sr[p].idx]
      /\ Len(Sends(id)) - Len(Results(id)) = (IF pc[id] = "send" THEN 1 ELSE 0)

\* The third send of a job is in flight after the first two have returned,
\* one of them with a failure.
C18_Witness ==
  \E id \in Ids :
    /\ pc[id] = "send" /\ idx[id] = 3
    /\ Len(Sends(id)) = 3 /\ Len(Results(id)) = 2
    /\ Results(id)[1].a # "ok"
    /\ closure[id].groupIds = <<"g1", "g2", "g1">>

\* C19: a dispatch that has begun runs to completion.  A cancelJob call made
\* while the callback is running does not stop it: the callback still reaches
\* its end, and unless the status check found the session not connected, every
\* destination of the list has then been attempted.
C19_CancelDoesNotStopDispatch ==
  /\ [](\A id \in Ids :
          (cancelled[id] = "late" /\ pc[id] = "done" /\ SawConnected(id)) =>
            Sends(id) = ExpectedSends(id))
  /\ \A id \in Ids :
       (cancelled[id] = "late" /\ pc[id] # "done") ~> (pc[id] = "done")

\* A three-destination job was cancelled no later than during its first send;
\* positions 2 and 3 have not been attempted yet.
C19_Witness ==
  \E id \in Ids :
    /\ cancelled[id] = "late" /\ ~MapHas(scheduledJobs, id)
    /\ pc[id] = "send" /\ idx[id] = 1
    /\ Len(closure[id].groupIds) = 3

\* C20: no destination is sent again: every list position of a job gets at
\* most one send attempt, also after a failed send and after a rate-limit
\* error with its backoff, so a job makes at most as many sends as its list is
\* long.
C20_NoResend ==
  \A id \in Ids :
    Issued(id) =>
      /\ \A k \in 1..Len(closure[id].groupIds) :
           Cardinality({p \in 1..Len(trace[id]) :
                          trace[id][p].type = "send" /\ trace[id][p].idx = k}) <= 1
      /\ \A p \in 1..Len(Sends(id)) : Sends(id)[p].idx \in 1..Len(closure[id].groupIds)
      /\ Len(Sends(id)) <= Len(closure[id].groupIds)

\* The first send hit the rate limit and was followed by the backoff, the
\* second failed; the job ended with one send per position.
C20_Witness ==
  \E id \in Ids :
    /\ pc[id] = "done" /\ Len(closure[id].groupIds) = 3
    /\ Len(Sends(id)) = 3 /\ Len(Results(id)) = 3 /\ Len(Waits(id)) >= 1
    /\ Results(id)[1].a = "throw429" /\ Waits(id)[1].a = "backoff"
    /\ Results(id)[2].a \in {"fail", "throw"}

\* C21: a schedule request with no credential or no owner identity, with a
\* missing or empty destination list, with neither text nor image reference,
\* or with a missing or unparsable activation time is rejected, and handling
\* it changes neither the registry nor the id counter nor any timer.
C21_RejectedRequestCreatesNothing ==
  \A req \in Requests :
    LET b == req.body
        h == req.headers
        malformed ==
          \/ ~TruthyStr(h, "authorization") \/ ~TruthyStr(h, "x-user-phone")
          \/ ~Has(b, "groupIds") \/ ~b.groupIds.isArray \/ Len(b.groupIds.items) = 0
          \/ ((~TruthyStr(b, "message") \/ Trim(b.message) = "") /\ ~TruthyStr(b, "imageUrl"))
          \/ ~Has(b, "scheduledAt") \/ ~DateParse(b.scheduledAt).valid
    IN malformed =>
         /\ RouteStatus(req, now) # 200
         /\ ~ENABLED (PostSchedule(req)
                        /\ <<scheduledJobs, nextId, timer>>' # <<scheduledJobs, nextId, timer>>)

\* C22: when a job's dispatch has ended, a per-destination result list holds
\* one outcome for every destination the dispatcher attempted.
C22_OutcomePerAttempt ==
  \A id \in Ids :
    (Issued(id) /\ pc[id] = "done") =>
      Len(RecordedResults(id)) = Len(Sends(id))

\* C23: every entry of listJobs() carries the job's id, destinations, message,
\* activation time, the owner's phone number and the status "scheduled".
C23_ListEntryFields ==
  \A k \in 1..Len(ListJobs) :
    /\ {"id", "groupIds", "message", "runAtMs", "phoneNumber", "status"}
         \subseteq DOMAIN ListJobs[k]
    /\ ListJobs[k].status = "scheduled"

\* C24: between the attempts on two consecutive destinations of a job a wait
\* always elapses: the result of every non-last send, whether success,
\* returned failure or thrown error, is followed by a pacing or backoff wait
\* before the next send.
C24_WaitBetweenAnyTwoAttempts ==
  \A id \in Ids :
    \A p \in 1..Len(trace[id]) :
      (trace[id][p].type = "result" /\ trace[id][p].idx < Len(closure[id].groupIds)) =>
        /\ p < Len(trace[id])
        /\ trace[id][p + 1].type = "wait"
        /\ trace[id][p + 1].a \in {"pace", "backoff"}

C28_VisibleWhileDispatching ==
  \A id \in Ids :
    /\ Phase(id) = "dispatching" =>
         /\ \E k \in 1..Len(ListJobs) :
              ListJobs[k].id = id /\ ListJobs[k].status = "scheduled"
         /\ GetJob(id) # Null
         /\ "status" \in DOMAIN GetJob(id) /\ GetJob(id).status = "scheduled"
    /\ Phase(id) = "completed" =>
         /\ \A k \in 1..Len(ListJobs) : ListJobs[k].id # id
         /\ GetJob(id) = Null

\* C29: the send variant is a function of the content the job was created
\* with: mixed for an image reference with non-blank text, image-only for an
\* image reference with blank text, text-only otherwise; every destination of
\* the job is sent with that one variant, one client invocation each.
C29_VariantFixedByContent ==
  /\ [](\A id \in Ids :
          Issued(id) =>
            \A p \in 1..Len(Sends(id)) :
              Sends(id)[p].b = SendVariant(rev, closure[id]))
  /\ [][nextId' # nextId =>
        \A params \in ParamsSet, id \in Ids :
          (ScheduleBroadcast(params) /\ id = String(nextId)) =>
            SendVariant(rev, closure'[id]) =
              (IF TruthyStr(params, "imageUrl") /\ Trim(params.message) # ""
                 THEN "sendMixedMessageToGroup"
               ELSE IF TruthyStr(params, "imageUrl") THEN "sendImageToGroup"
               ELSE "sendMessageToGroup")]_vars

\* C30: every job the schedule route registers has content: no registry
\* record has a blank message text and no image reference.
C30_RegisteredJobHasContent ==
  \A id \in Ids :
    MapHas(scheduledJobs, id) =>
      \/ Trim(scheduledJobs[id].message) # ""
      \/ /\ "imageUrl" \in DOMAIN scheduledJobs[id]
         /\ scheduledJobs[id].imageUrl # "null"

\* C31: one activation timer is armed per scheduled job from creation until
\* it fires or the job is cancelled: an armed timer exists for an id exactly
\* when the job is registered and its callback has not started, and a job
\* that cancelJob removed has no armed timer.
C31_ArmedTimerIffPending ==
  \A id \in Ids :
    /\ timer[id].state = "armed" <=> (MapHas(scheduledJobs, id) /\ pc[id] = "idle")
    /\ timer[id].state = "armed" => (Issued(id) /\ scheduledJobs[id].timeout = id)
    /\ cancelled[id] # "no" => timer[id].state # "armed"

\* One job is waiting for its timer, the other was cancelled before its timer
\* fired.
C31_Witness ==
  /\ timer["1"].state = "armed" /\ MapHas(scheduledJobs, "1")
  /\ timer["2"].state = "cleared" /\ cancelled["2"] = "early"
  /\ ~MapHas(scheduledJobs, "2")

\* C32: after the final destination of a job has been attempted the job is
\* removed from the registry with no pacing or backoff wait in between, also
\* when the final send failed (a rate-limit error included) and also when the
\* final destination's identifier occurs earlier in the list.
C32_NoWaitAfterFinalDestination ==
  \A id \in Ids :
    Issued(id) =>
      \A p \in 1..Len(trace[id]) :
        (trace[id][p].type = "result" /\ trace[id][p].idx = Len(closure[id].groupIds)) =>
          /\ p < Len(trace[id])
          /\ trace[id][p + 1].type = "delete"
          /\ pc[id] = "done"
          /\ ~MapHas(scheduledJobs, id)

\* C33: a job's cleanup removes only its own registry entry.  In every step
\* in which the callback of job X ends (its trace gains the delete event), the
\* entry, timer, closure and callback position of every other job Y are left
\* as they were; this covers a job cancelled during its dispatch whose cleanup
\* runs after a newer job was scheduled.
C33_CleanupTouchesOwnEntryOnly ==
  [][\A x \in Ids :
       (Len(Deletes(x))' > Len(Deletes(x))) =>
         /\ ~MapHas(scheduledJobs', x)
         /\ \A y \in Ids \ {x} :
              /\ MapHas(scheduledJobs', y) <=> MapHas(scheduledJobs, y)
              /\ MapHas(scheduledJobs, y) => scheduledJobs'[y] = scheduledJobs[y]
              /\ timer'[y] = timer[y]
              /\ pc'[y] = pc[y] /\ trace'[y] = trace[y]
         /\ closure' = closure /\ nextId' = nextId]_vars

\* Job "1" was cancelled during its dispatch and has since ended; job "2",
\* scheduled meanwhile, is still registered with its timer armed.
C33_Witness ==
  /\ cancelled["1"] = "late" /\ pc["1"] = "done" /\ Len(Deletes("1")) >= 1
  /\ MapHas(scheduledJobs, "2") /\ timer["2"].state = "armed"

\* C35: for a job without image content the two revisions take the same
\* steps from the same state, the length of a pacing wait apart: the record
\* scheduleBroadcast stores has the same id, time, destinations, message,
\* timer and owner in both; the callback calls the same client method with
\* the same possible results; and after a send has settled both either start
\* a wait of the same kind or both go on without one.
OtherRev == IF rev = "A" THEN "B" ELSE "A"
TextJobFields == {"id", "runAtMs", "groupIds", "message", "timeout", "apiKey", "phoneNumber"}
C35_RevisionsAgreeOnTextJobs ==
  [][/\ nextId' # nextId =>
          \A params \in TextParams, id \in Ids :
            (ScheduleBroadcast(params) /\ id = String(nextId)) =>
               /\ Destructure(OtherRev, params) = closure'[id]
               /\ \A f \in TextJobFields :
                    JobRecord(OtherRev, id, params)[f] = scheduledJobs'[id][f]
     /\ \A id \in Ids :
          (pc[id] = "send" /\ trace'[id] # trace[id]
             /\ ~Has(closure[id], "hasImage")) =>
            /\ SendVariant(OtherRev, closure[id]) = SendVariant(rev, closure[id])
            /\ SendOutcomes(OtherRev, closure[id]) = SendOutcomes(rev, closure[id])
            /\ \A out \in SendOutcomes(rev, closure[id]), f \in RandomFloors :
                 SendReturns(id, out, f) =>
                   WaitAfterSend(OtherRev, closure[id].groupIds, idx[id], out, f).kind
                     = wait'[id].kind]_vars

\* C34: sendMessageToGroup never raises.  Whatever the provider call settles
\* with, the method returns a value; with an API key set, a failed call (HTTP
\* error, 429, timeout, a body saying success: false, no body) is returned as
\* {success: false, error} carrying the error's message; and a success value
\* is returned only if the provider accepted the message or the instance has
\* no API key at all.
C34_SendMessageToGroupNeverRaises ==
  (call.fn = "sendMessageToGroup" /\ call.pc \in {"returned", "thrown"}) =>
    LET resp == call.log[Len(call.log)].a
    IN /\ call.pc = "returned"
       /\ ~call.ret.thrown
       /\ (resp # "accepted" /\ call.inst.apiKey # "") =>
            /\ ~call.ret.value.success
            /\ call.ret.value.error = SendErrorMessage(resp)
       /\ call.ret.value.success => (resp = "accepted" \/ call.inst.apiKey = "")
C34_Witness ==
  /\ call.fn = "sendMessageToGroup" /\ call.pc = "returned"
  /\ call.inst = [apiKey |-> "key1", deviceId |-> "dev1"]
  /\ call.log[Len(call.log)].a = "http429"
  /\ call.ret.value = [success |-> FALSE, error |-> "Request failed with status code 429"]

\* C36: sendMessagesToGroups attempts the groups once each in list order;
\* results holds one entry per attempted group in that order; a wait follows
\* the result of every group except the last; and the value returned has
\* totalGroups = number of groups, one result per group, successCount = number
\* of entries with success true and successCount + failedCount = totalGroups.
C36_BroadcastAccounting ==
  call.fn = "sendMessagesToGroups" =>
    LET n == Len(call.list)
        log == call.log
        sends == Sel(log, "send")
        v == call.ret.value
    IN /\ Len(sends) <= n
       /\ \A j \in 1..Len(sends) : sends[j].idx = j /\ sends[j].a = call.list[j]
       /\ Len(call.results) = Len(Sel(log, "result"))
       /\ \A j \in 1..Len(call.results) : call.results[j].groupId = call.list[j]
       /\ \A p \in 1..Len(log) :
            /\ log[p].type = "send" /\ p < Len(log) =>
                 log[p + 1].type = "result" /\ log[p + 1].idx = log[p].idx
            /\ log[p].type = "result" /\ log[p].idx < n =>
                 p < Len(log) /\ log[p + 1].type = "wait" /\ log[p + 1].idx = log[p].idx
            /\ log[p].type = "result" /\ log[p].idx = n =>
                 p = Len(log) /\ call.pc = "returned"
            /\ log[p].type = "wait" /\ p < Len(log) =>
                 log[p + 1].type = "send" /\ log[p + 1].idx = log[p].idx + 1
       /\ call.pc # "thrown"
       /\ call.pc = "returned" =>
            /\ Len(sends) = n
            /\ Len(Sel(log, "wait")) = Max(n - 1, 0)
            /\ v.totalGroups = n
            /\ Len(v.results) = n
            /\ v.successCount = Cardinality({j \in 1..n : v.results[j].success})
            /\ v.successCount + v.failedCount = v.totalGroups
C36_Witness ==
  /\ call.fn = "sendMessagesToGroups" /\ call.pc = "returned"
  /\ call.list = <<"g1", "g2", "g1">>
  /\ call.ret.value.successCount = 2 /\ call.ret.value.failedCount = 1
  /\ ~call.ret.value.results[2].success
  /\ Len(Sel(call.log, "wait")) = 2

\* C37: waitForSessionConnection (and pollConnectionStatus, the same loop in
\* the session service) makes at most maxAttempts status checks and ends
\* after at most 3 * maxAttempts steps.  A check that reports connected is
\* the last thing the call does, and waitForSessionConnection then returns
\* {success: true, connected: true}.  Otherwise the call ends with the
\* connection-timeout failure after exactly maxAttempts checks, none of which
\* reported connected.  A wait happens only after a check that is not the
\* last one, and is followed by the next check.
Connected(c, e) ==
  IF c.fn = "waitForSessionConnection"
    THEN CheckDeviceStatus(c.inst.apiKey, e.a).connected
    ELSE ~CheckConnectionStatus(e.a).thrown /\ CheckConnectionStatus(e.a).connected
Ended(c) == c.pc \in {"returned", "thrown"}
C37_ConnectionWaitBounded ==
  call.fn \in {"waitForSessionConnection", "pollConnectionStatus"} =>
    LET log == call.log
        checks == Sel(log, "check")
        statuses == Sel(log, "status")
    IN /\ Len(checks) <= call.max
       /\ Len(log) <= 3 * call.max
       /\ \A j \in 1..Len(checks) : checks[j].idx = j
       /\ \A p \in 1..Len(log) :
            /\ (log[p].type = "status" /\ Connected(call, log[p])) =>
                 p = Len(log) /\ call.pc = "returned"
            /\ log[p].type = "wait" =>
                 /\ log[p].idx < call.max
                 /\ p > 1 /\ log[p - 1].type = "status" /\ log[p - 1].idx = log[p].idx
                 /\ p < Len(log) =>
                      log[p + 1].type = "check" /\ log[p + 1].idx = log[p].idx + 1
                 /\ p = Len(log) => call.pc = "wait"
       /\ Ended(call) =>
            IF Len(log) > 0 /\ Connected(call, log[Len(log)])
              THEN /\ call.pc = "returned"
                   /\ call.fn = "waitForSessionConnection" =>
                        call.ret.value = [success |-> TRUE, connected |-> TRUE, error |-> ""]
                   /\ call.fn = "pollConnectionStatus" => call.ret.value.connected
              ELSE /\ Len(checks) = call.max
                   /\ Len(statuses) = call.max
                   /\ call.fn = "waitForSessionConnection" =>
                        call.pc = "returned" /\ call.ret.value = ConnectionTimeout
                   /\ call.fn = "pollConnectionStatus" => call.pc = "thrown"
C37_Witness ==
  /\ call.fn = "waitForSessionConnection" /\ call.pc = "returned"
  /\ call.max = MaxAttempts /\ call.inst.apiKey = "key1"
  /\ call.ret.value = ConnectionTimeout
  /\ Len(Sel(call.log, "check")) = MaxAttempts
  /\ Len(Sel(call.log, "wait")) = MaxAttempts - 1

\* C38: deleteAllSessions handles the listed sessions independently.  The
\* delete of a session is issued only after the disconnect of that session
\* succeeded; while Promise.all is pending, the call of every session that
\* has not settled can settle whatever happened to the others; and the value
\* returned carries deletedCount and failedCount, which add up to the number
\* of sessions listed.
C38_DeleteAllIndependent ==
  call.fn = "deleteAllSessions" =>
    LET log == call.log
        v == call.ret.value
    IN /\ \A p \in 1..Len(log) :
            log[p].type = "delete" =>
              \E q \in 1..(p - 1) : log[q] = Event("disconnected", log[p].idx, "ok", "")
       /\ call.pc = "all" =>
            \A k \in DOMAIN call.sess :
              /\ \E q \in 1..Len(log) : log[q] = Event("disconnect", k, "", "")
              /\ call.sess[k] = "disconnect" => ENABLED DisconnectSettles(k, "ok")
              /\ call.sess[k] = "delete" => ENABLED DeleteSettles(k, "ok")
       /\ call.pc = "returned" =>
            /\ Has(v, "deletedCount") /\ Has(v, "failedCount")
            /\ v.deletedCount + v.failedCount = Len(call.list)

\* C39: generateQRForNewUser invokes createSession, connectSession, getQRCode
\* and convertQRToImage in this order, each only after the one before it
\* settled with success (getQRCode after the initialisation wait that follows
\* connectSession); a step that fails is the last thing invoked and its error
\* is raised to the caller; and the success value is returned only after all
\* four steps succeeded.
QRSteps == <<"createSession", "connectSession", "initWait", "getQRCode", "convertQRToImage">>
C39_QRProtocolOrder ==
  call.fn = "generateQRForNewUser" =>
    LET log == call.log
        invoked == Sel(log, "invoke")
        settled == Sel(log, "settle")
    IN /\ Len(invoked) <= Len(QRSteps)
       /\ \A j \in 1..Len(invoked) : invoked[j].a = QRSteps[j]
       /\ \A j \in 1..Len(settled) : settled[j].a = QRSteps[j]
       /\ Len(settled) <= Len(invoked) /\ Len(invoked) <= Len(settled) + 1
       /\ \A j \in 1..Len(settled) :
            IF settled[j].b = "ok"
              THEN j < Len(QRSteps) => Len(invoked) > j
              ELSE /\ j = Len(settled) /\ Len(invoked) = j
                   /\ call.pc = "thrown" /\ call.ret.thrown
       /\ call.pc = "thrown" =>
            Len(settled) > 0 /\ settled[Len(settled)].b # "ok"
       /\ call.pc = "returned" =>
            /\ call.ret.value.success
            /\ Len(settled) = Len(QRSteps)
            /\ \A j \in 1..Len(settled) : settled[j].b = "ok"
C39_Witness ==
  /\ call.fn = "generateQRForNewUser" /\ call.pc = "thrown"
  /\ Len(Sel(call.log, "invoke")) = 4
  /\ call.log[Len(call.log)] = Event("settle", 0, "getQRCode", "success_false")
  /\ call.ret.value.error = "QR code retrieval failed: Unknown error"

\* -------------------------------------------------------------- fairness
\* Every awaited delivery-client call and every pacing or backoff timer of a
\* started callback eventually settles.
Fairness ==
  \A id \in Ids :
    /\ WF_vars(\E resp \in StatusResponses : StatusReturns(id, resp))
    /\ WF_vars(\E out \in AllOutcomes, f \in RandomFloors : SendReturns(id, out, f))
    /\ WF_vars(WaitElapses(id))

FairSpec == Spec /\ Fairness

====
